---- MODULE Spec2Model ----
(***************************************************************************)
(* tsdg, the time-series data generator: the distribution catalog          *)
(* (distribution.py), the column definitions (col.py), the label-set       *)
(* enumerator and the prometheus remote-write generator (main.py).         *)
(*                                                                         *)
(* Python values are modelled as follows.  A dict is a function whose      *)
(* DOMAIN is its key set when only look-ups matter (the configuration      *)
(* dicts), and a sequence of <<key, value>> pairs in insertion order when  *)
(* its iteration order matters (tag_set, the label-sets, labels).  A call  *)
(* that may raise returns Ok(v) or Raise(exception name).                  *)
(***************************************************************************)
EXTENDS Integers, Sequences, FiniteSets, TLC

(***************************************************************************)
(* Bounds of the model.                                                    *)
(***************************************************************************)
MaxStep == 5        \* steps of mono_inc / mono_dec range over 1..MaxStep
MaxInt == 2         \* integer parameters of the distributions: 0..MaxInt
MaxAdvance == 4     \* a generator of DistSpec is advanced at most this often
MaxPreset == 2      \* a weighted preset holds at most this many entries

\* The opaque values of a configuration (the value of a constant, the values
\* of a preset) keep their Python type
PyStr(s) == [str |-> s]
PyInt(i) == [int |-> i]
PyFloat(f) == [float |-> f]

Ok(v) == [ok |-> v]
Raise(e) == [raised |-> e]
IsRaise(r) == DOMAIN r = {"raised"}
Has(config, key) == key \in DOMAIN config

(***************************************************************************)
(* distribution.py: the constructors of the Distribution subclasses.       *)
(* The parameter order is the one of each __init__.                        *)
(***************************************************************************)
MonoInc(step) == [cls |-> "MonoInc", step |-> step]
MonoDec(step) == [cls |-> "MonoDec", step |-> step]
Random(upper_bound, lower_bound) ==
    [cls |-> "Random", upper_bound |-> upper_bound, lower_bound |-> lower_bound]
RandomInt(upper_bound, lower_bound) ==
    [cls |-> "RandomInt", upper_bound |-> upper_bound, lower_bound |-> lower_bound]
RandomString(length) == [cls |-> "RandomString", length |-> length]
Normal(mean, std_dev) == [cls |-> "Normal", mean |-> mean, std_dev |-> std_dev]
Uniform(upper_bound, lower_bound) ==
    [cls |-> "Uniform", upper_bound |-> upper_bound, lower_bound |-> lower_bound]
Noise(upper_bound, lower_bound) ==
    [cls |-> "Noise", upper_bound |-> upper_bound, lower_bound |-> lower_bound]
Periodic(period, amplitude, bias) ==
    [cls |-> "Periodic", period |-> period, amplitude |-> amplitude, bias |-> bias]
ConstantString(value) == [cls |-> "ConstantString", value |-> value]
ConstantInt(value) == [cls |-> "ConstantInt", value |-> value]
ConstantFloat(value) == [cls |-> "ConstantFloat", value |-> value]
Weight(value, weight) == [value |-> value, weight |-> weight]
WeightedPreset(presets) == [cls |-> "WeightedPreset", presets |-> presets]

\* Weight.from_config: config["value"], config["weight"]
Weight_from_config(config) ==
    IF Has(config, "value") /\ Has(config, "weight")
    THEN Ok(Weight(config["value"], config["weight"]))
    ELSE Raise("KeyError")

\* WeightedPreset.from_config: the list comprehension raises at the first
\* preset entry that Weight.from_config rejects
WeightedPreset_from_config(config) ==
    IF \E i \in 1..Len(config) : IsRaise(Weight_from_config(config[i]))
    THEN Raise("KeyError")
    ELSE Ok(WeightedPreset([i \in 1..Len(config) |-> Weight_from_config(config[i]).ok]))

\* Distribution.from_config: the if / elif chain on config["type"]; a
\* missing key is a KeyError, an unknown type tag the ValueError of the
\* final else
Distribution_from_config(config) ==
    IF ~Has(config, "type") THEN Raise("KeyError")
    ELSE LET dist_type == config["type"] IN
    IF dist_type = "mono_inc" THEN
        IF Has(config, "step") THEN Ok(MonoInc(config["step"])) ELSE Raise("KeyError")
    ELSE IF dist_type = "mono_dec" THEN
        IF Has(config, "step") THEN Ok(MonoDec(config["step"])) ELSE Raise("KeyError")
    ELSE IF dist_type = "random" THEN
        IF Has(config, "upper_bound") /\ Has(config, "lower_bound")
        THEN Ok(Random(config["upper_bound"], config["lower_bound"]))
        ELSE Raise("KeyError")
    ELSE IF dist_type = "random_int" THEN
        IF Has(config, "upper_bound") /\ Has(config, "lower_bound")
        THEN Ok(RandomInt(config["upper_bound"], config["lower_bound"]))
        ELSE Raise("KeyError")
    ELSE IF dist_type = "random_string" THEN
        IF Has(config, "length") THEN Ok(RandomString(config["length"]))
        ELSE Raise("KeyError")
    ELSE IF dist_type = "normal" THEN
        IF Has(config, "mean") /\ Has(config, "stddev")
        THEN Ok(Normal(config["mean"], config["stddev"]))
        ELSE Raise("KeyError")
    ELSE IF dist_type = "uniform" THEN
        IF Has(config, "upper_bound") /\ Has(config, "lower_bound")
        THEN Ok(Uniform(config["upper_bound"], config["lower_bound"]))
        ELSE Raise("KeyError")
    ELSE IF dist_type = "noise" THEN
        IF Has(config, "upper_bound") /\ Has(config, "lower_bound")
        THEN Ok(Noise(config["upper_bound"], config["lower_bound"]))
        ELSE Raise("KeyError")
    ELSE IF dist_type = "periodic" THEN
        IF Has(config, "period") /\ Has(config, "amplitude") /\ Has(config, "bias")
        THEN Ok(Periodic(config["period"], config["amplitude"], config["bias"]))
        ELSE Raise("KeyError")
    ELSE IF dist_type = "constant_string" THEN
        IF Has(config, "value") THEN Ok(ConstantString(config["value"]))
        ELSE Raise("KeyError")
    ELSE IF dist_type = "constant_int" THEN
        IF Has(config, "value") THEN Ok(ConstantInt(config["value"]))
        ELSE Raise("KeyError")
    ELSE IF dist_type = "constant_float" THEN
        IF Has(config, "value") THEN Ok(ConstantFloat(config["value"]))
        ELSE Raise("KeyError")
    ELSE IF dist_type = "weighted_preset" THEN
        IF Has(config, "preset") THEN WeightedPreset_from_config(config["preset"])
        ELSE Raise("KeyError")
    ELSE Raise("ValueError")

\* Python's range(lo, hi): lo, lo+1, ..., hi-1 (empty when hi <= lo); the
\* integers of an enumeration are kept with their type, like its other values
range(lo, hi) == [i \in 1..(hi - lo) |-> PyInt(lo + i - 1)]

\* all() as it would be if the base class returned an empty list
all_base_returns_empty(dist) ==
    IF dist.cls = "RandomInt" THEN Ok(range(dist.lower_bound, dist.upper_bound))
    ELSE IF dist.cls \in {"ConstantString", "ConstantInt", "ConstantFloat"}
    THEN Ok(<<dist.value>>)
    ELSE IF dist.cls = "WeightedPreset"
    THEN Ok([i \in 1..Len(dist.presets) |-> dist.presets[i].value])
    ELSE Ok(<<>>)

\* all(): the base class raises ValueError; RandomInt, the three Constant
\* classes and WeightedPreset override it
all(dist) ==
    IF dist.cls = "RandomInt" THEN Ok(range(dist.lower_bound, dist.upper_bound))
    ELSE IF dist.cls \in {"ConstantString", "ConstantInt", "ConstantFloat"}
    THEN Ok(<<dist.value>>)
    ELSE IF dist.cls = "WeightedPreset"
    THEN Ok([i \in 1..Len(dist.presets) |-> dist.presets[i].value])
    ELSE Raise("ValueError")

(***************************************************************************)
(* Generators.  A generator object is the frame of the generator function: *)
(* its distribution (self), whether the body has started, and the local    *)
(* `current` of the classes that have one.  generator() only creates the   *)
(* frame; the body runs from one yield to the next at each next().         *)
(***************************************************************************)
generator(dist) == [dist |-> dist, started |-> FALSE, current |-> 0]

\* random.uniform(a, b) lies between a and b whichever is larger; of the
\* reals in between the model draws the integers
uniform(a, b) == IF a <= b THEN a..b ELSE b..a

\* random.randint(a, b): a <= N <= b, both ends included
randint(a, b) == a..b

\* random.normalvariate(mu, sigma): of the reals the model draws mu and
\* the two values one sigma away
normalvariate(mu, sigma) == {mu - sigma, mu, mu + sigma}

\* random.choices(population, k=length) joined: the strings of that length
\* (as sequences of characters); of string.ascii_letters + string.digits
\* the model keeps two characters
Alphabet == {"a", "0"}
random_string(length) == [1..length -> Alphabet]

\* random.choices(values, weights)[0]: a value of positive weight
weighted_choice(presets) ==
    {presets[i].value : i \in {j \in 1..Len(presets) : presets[j].weight > 0}}

\* amplitude * sin(current / period) + bias is kept symbolic: a value of a
\* Periodic generator is the number of times the recurrence has been
\* applied to the initial 0
Periodic_step(dist, current) == current + 1

\* next(gen) raises instead of yielding: randint on an empty range,
\* choices on an empty population or on weights that sum to zero
next_raises(gen) ==
    \/ gen.dist.cls = "RandomInt" /\ gen.dist.lower_bound > gen.dist.upper_bound
    \/ gen.dist.cls = "WeightedPreset" /\ weighted_choice(gen.dist.presets) = {}

\* MonoInc.generator as it would be if it added step before its first yield
MonoInc_resume_update_first(gen) == gen.current + gen.dist.step

\* MonoInc.generator from one yield to the next: the first next() yields
\* the initial current, a later one resumes after the yield and adds step
MonoInc_resume(gen) ==
    IF gen.started THEN gen.current + gen.dist.step ELSE 0

MonoDec_resume(gen) ==
    IF gen.started THEN gen.current - gen.dist.step ELSE 0

\* next(gen): the set of outcomes [value, gen] of running the body of
\* generator() to its next yield; the yielded value is kept with its type
\* (the sums of the integers of the model are int, the draws of
\* random.uniform and random.normalvariate and the sine are float)
next(gen) ==
    LET dist == gen.dist
        yield(v, cur) == [value |-> v,
                          gen |-> [gen EXCEPT !.started = TRUE, !.current = cur]]
    IN
    IF dist.cls = "MonoInc"
    THEN {yield(PyInt(MonoInc_resume(gen)), MonoInc_resume(gen))}
    ELSE IF dist.cls = "MonoDec"
    THEN {yield(PyInt(MonoDec_resume(gen)), MonoDec_resume(gen))}
    ELSE IF dist.cls \in {"Random", "Uniform"}
    THEN {yield(PyFloat(v), gen.current) :
            v \in uniform(dist.lower_bound, dist.upper_bound)}
    ELSE IF dist.cls = "RandomInt"
    THEN {yield(PyInt(v), gen.current) :
            v \in randint(dist.lower_bound, dist.upper_bound)}
    ELSE IF dist.cls = "RandomString"
    THEN {yield(PyStr(v), gen.current) : v \in random_string(dist.length)}
    ELSE IF dist.cls = "Normal"
    THEN {yield(PyFloat(v), gen.current) :
            v \in normalvariate(dist.mean, dist.std_dev)}
    ELSE IF dist.cls = "Noise"
    THEN {yield(PyFloat(gen.current + u), gen.current + u) :
            u \in uniform(dist.lower_bound, dist.upper_bound)}
    ELSE IF dist.cls = "Periodic"
    THEN {yield(PyFloat(Periodic_step(dist, gen.current)),
                Periodic_step(dist, gen.current))}
    ELSE IF dist.cls \in {"ConstantString", "ConstantInt", "ConstantFloat"}
    THEN {yield(dist.value, gen.current)}
    ELSE {yield(v, gen.current) : v \in weighted_choice(dist.presets)}

(***************************************************************************)
(* col.py                                                                  *)
(***************************************************************************)
\* The values of the DataType enum
DataType == {"INTEGER", "STRING", "FLOAT"}

Column(name, type, nullability, dist) ==
    [name |-> name, type |-> type, nullability |-> nullability, dist |-> dist]

\* Column.from_config: the arguments are evaluated in order; DataType(x)
\* raises ValueError when x is no value of the enum
Column_from_config(config) ==
    IF ~Has(config, "name") \/ ~Has(config, "type") THEN Raise("KeyError")
    ELSE IF config["type"] \notin DataType THEN Raise("ValueError")
    ELSE IF ~Has(config, "nullability") \/ ~Has(config, "dist") THEN Raise("KeyError")
    ELSE LET d == Distribution_from_config(config["dist"]) IN
         IF IsRaise(d) THEN d
         ELSE Ok(Column(config["name"], config["type"], config["nullability"], d.ok))

(***************************************************************************)
(* Python dicts whose iteration order matters: <<key, value>> pairs in     *)
(* insertion order, no key twice.                                          *)
(***************************************************************************)
DictHas(d, key) == \E i \in 1..Len(d) : d[i][1] = key
DictGet(d, key) == d[CHOOSE i \in 1..Len(d) : d[i][1] = key][2]
\* d[key] = value: a present key keeps its place
DictSet(d, key, value) ==
    IF DictHas(d, key)
    THEN [i \in 1..Len(d) |-> IF d[i][1] = key THEN <<key, value>> ELSE d[i]]
    ELSE Append(d, <<key, value>>)

RECURSIVE DictOf(_)
\* dict(pairs), and a dict comprehension over pairs
DictOf(pairs) ==
    IF pairs = <<>> THEN <<>>
    ELSE LET n == Len(pairs) IN
         DictSet(DictOf(SubSeq(pairs, 1, n - 1)), pairs[n][1], pairs[n][2])

(***************************************************************************)
(* main.py: the label-set enumerator                                       *)
(***************************************************************************)
\* itertools.product as it would be if the values were paired by position
\* (zip) instead of combined
product_zip(values) ==
    IF values = <<>> THEN << <<>> >>
    ELSE LET shortest == CHOOSE n \in {Len(values[i]) : i \in 1..Len(values)} :
                            \A i \in 1..Len(values) : n <= Len(values[i])
         IN [k \in 1..shortest |-> [i \in 1..Len(values) |-> values[i][k]]]

RECURSIVE product(_)
\* itertools.product(*values): the tuples in lexicographic order, the last
\* position varying fastest
product(values) ==
    IF values = <<>> THEN << <<>> >>
    ELSE LET head == values[1]
             rest == product(Tail(values))
             m == Len(rest)
         IN [k \in 1..(Len(head) * m) |->
                <<head[((k - 1) \div m) + 1]>> \o rest[((k - 1) % m) + 1]]

RECURSIVE count_of(_)
\* reduce(lambda count, i: count * len(i), values, 1)
count_of(values) ==
    IF values = <<>> THEN 1
    ELSE LET n == Len(values) IN count_of(SubSeq(values, 1, n - 1)) * Len(values[n])

\* tag_set_permutation(tags): Ok of the permutation and of the count it
\* prints, or the ValueError of an all() that raises or of unpacking the
\* zip of an empty tag_set
tag_set_permutation(tags_) ==
    IF \E i \in 1..Len(tags_) : IsRaise(all(tags_[i].dist)) THEN Raise("ValueError")
    ELSE LET tag_set == DictOf([i \in 1..Len(tags_) |->
                                   <<tags_[i].name, all(tags_[i].dist).ok>>])
         IN
         IF tag_set = <<>> THEN Raise("ValueError")
         ELSE LET keys == [i \in 1..Len(tag_set) |-> tag_set[i][1]]
                  values == [i \in 1..Len(tag_set) |-> tag_set[i][2]]
                  tuples == product(values)
              IN Ok([count |-> count_of(values),
                     permutation |-> [j \in 1..Len(tuples) |->
                         [i \in 1..Len(keys) |-> <<keys[i], tuples[j][i]>>]]])

\* parse_col_defs: the list comprehension raises at the first column that
\* Column.from_config rejects
parse_col_defs(cols) ==
    IF \E i \in 1..Len(cols) : IsRaise(Column_from_config(cols[i]))
    THEN Column_from_config(cols[CHOOSE i \in 1..Len(cols) :
            /\ IsRaise(Column_from_config(cols[i]))
            /\ \A j \in 1..(i - 1) : ~IsRaise(Column_from_config(cols[j]))])
    ELSE Ok([i \in 1..Len(cols) |-> Column_from_config(cols[i]).ok])

\* prom_file as it would be if the name did not depend on the index
prom_file_without_index(name, index) == <<name, ".bin">>

\* prom_file: f"{name}-{index}.bin"
prom_file(name, index) == <<name, "-", index, ".bin">>

\* Python's range(lo, hi, step) for step >= 1, as the set of its members
range_step(lo, hi, step) == {t \in lo..(hi - 1) : (t - lo) % step = 0}

\* A label value must be a str and a sample value a number: the protobuf
\* constructors Label(value=...) and Sample(value=...) raise TypeError otherwise
is_str(v) == DOMAIN v = {"str"}
yields_number(dist) ==
    /\ dist.cls \notin {"ConstantString", "RandomString"}
    /\ dist.cls = "WeightedPreset" =>
          \A i \in 1..Len(dist.presets) : ~is_str(dist.presets[i].value)

\* A number as the float a double field holds: float(v)
is_number(v) == DOMAIN v \in {{"int"}, {"float"}}
double(v) == PyFloat(IF DOMAIN v = {"int"} THEN v.int ELSE v.float)

\* build_timeseries as it would be if Label were given the key for its value
build_timeseries_value_is_key(labels_, samples_) ==
    IF \E i \in 1..Len(labels_) : ~is_str(labels_[i][2]) THEN Raise("TypeError")
    ELSE IF \E i \in 1..Len(samples_) : ~is_number(samples_[i][2])
    THEN Raise("TypeError")
    ELSE Ok([labels |-> [i \in 1..Len(labels_) |->
                            [name |-> labels_[i][1], value |-> PyStr(labels_[i][1])]],
             samples |-> [i \in 1..Len(samples_) |->
                            [value |-> double(samples_[i][2]),
                             timestamp |-> samples_[i][1]]]])

\* build_timeseries as it would be if the loop over samples missed the last one
build_timeseries_without_last(labels_, samples_) ==
    IF \E i \in 1..Len(labels_) : ~is_str(labels_[i][2]) THEN Raise("TypeError")
    ELSE IF \E i \in 1..Len(samples_) : ~is_number(samples_[i][2])
    THEN Raise("TypeError")
    ELSE Ok([labels |-> [i \in 1..Len(labels_) |->
                            [name |-> labels_[i][1], value |-> labels_[i][2]]],
             samples |-> [i \in 1..(Len(samples_) - 1) |->
                            [value |-> double(samples_[i][2]),
                             timestamp |-> samples_[i][1]]]])

\* build_timeseries(labels, samples): one Label per item of labels, one
\* Sample per sample, in order; the value of a Sample is a double
build_timeseries(labels_, samples_) ==
    IF \E i \in 1..Len(labels_) : ~is_str(labels_[i][2]) THEN Raise("TypeError")
    ELSE IF \E i \in 1..Len(samples_) : ~is_number(samples_[i][2])
    THEN Raise("TypeError")
    ELSE Ok([labels |-> [i \in 1..Len(labels_) |->
                            [name |-> labels_[i][1], value |-> labels_[i][2]]],
             samples |-> [i \in 1..Len(samples_) |->
                            [value |-> double(samples_[i][2]),
                             timestamp |-> samples_[i][1]]]])

(***************************************************************************)
(* The wire message.  A serialized message is the sequence of its fields,  *)
(* each with its field number and its payload; a scalar field that holds   *)
(* its default (0, 0.0, "") is left out and read back as the default, an   *)
(* element of a repeated message field is always written.                  *)
(***************************************************************************)
utf8(str) == [utf8 |-> str]

\* Label: string name = 1; string value = 2
Label_SerializeToString(label) ==
    (IF label.name # "" THEN <<[field |-> 1, bytes |-> utf8(label.name)]>> ELSE <<>>)
    \o (IF label.value # PyStr("")
        THEN <<[field |-> 2, bytes |-> utf8(label.value.str)]>> ELSE <<>>)

\* Sample: double value = 1; int64 timestamp = 2
Sample_SerializeToString(sample) ==
    (IF sample.value # PyFloat(0)
     THEN <<[field |-> 1, fixed64 |-> sample.value.float]>> ELSE <<>>)
    \o (IF sample.timestamp # 0
        THEN <<[field |-> 2, varint |-> sample.timestamp]>> ELSE <<>>)

\* TimeSeries: repeated Label labels = 1; repeated Sample samples = 2
TimeSeries_SerializeToString(entry) ==
    [i \in 1..Len(entry.labels) |->
        [field |-> 1, len |-> Label_SerializeToString(entry.labels[i])]]
    \o [i \in 1..Len(entry.samples) |->
        [field |-> 2, len |-> Sample_SerializeToString(entry.samples[i])]]

\* WriteRequest: repeated TimeSeries timeseries = 1
WriteRequest_SerializeToString(request) ==
    [i \in 1..Len(request.timeseries) |->
        [field |-> 1, len |-> TimeSeries_SerializeToString(request.timeseries[i])]]

\* snappy.compress and snappy.decompress
compress(bytes) == [snappy |-> bytes]
decompress(compressed) == compressed.snappy

\* build_remote_write_message(timeseries): the WriteRequest holding the
\* entries, serialized and compressed
build_remote_write_message(timeseries) ==
    compress(WriteRequest_SerializeToString([timeseries |-> timeseries]))

\* Reading a message back: the fields of one number, in order; of a scalar
\* field the last one counts
FieldsOf(bytes, number) ==
    LET hit(f) == f.field = number IN SelectSeq(bytes, hit)
Label_FromString(bytes) ==
    LET n == FieldsOf(bytes, 1)
        v == FieldsOf(bytes, 2)
    IN [name |-> IF n = <<>> THEN "" ELSE n[Len(n)].bytes.utf8,
        value |-> PyStr(IF v = <<>> THEN "" ELSE v[Len(v)].bytes.utf8)]
Sample_FromString(bytes) ==
    LET v == FieldsOf(bytes, 1)
        t == FieldsOf(bytes, 2)
    IN [value |-> PyFloat(IF v = <<>> THEN 0 ELSE v[Len(v)].fixed64),
        timestamp |-> IF t = <<>> THEN 0 ELSE t[Len(t)].varint]
TimeSeries_FromString(bytes) ==
    LET l == FieldsOf(bytes, 1)
        s == FieldsOf(bytes, 2)
    IN [labels |-> [i \in 1..Len(l) |-> Label_FromString(l[i].len)],
        samples |-> [i \in 1..Len(s) |-> Sample_FromString(s[i].len)]]
WriteRequest_FromString(bytes) ==
    LET t == FieldsOf(bytes, 1)
    IN [timeseries |-> [i \in 1..Len(t) |-> TimeSeries_FromString(t[i].len)]]
\* decompressing and decoding a file's message
decode(message) == WriteRequest_FromString(decompress(message))

(***************************************************************************)
(* The distribution configurations of the model: every type tag with its   *)
(* parameters, each of them with one key missing, and unknown type tags.   *)
(***************************************************************************)
Ints == 0..MaxInt
Strs == {PyStr("a"), PyStr("b")}
Drop(config, key) == [k \in DOMAIN config \ {key} |-> config[k]]

PresetEntries ==
    {[value |-> v, weight |-> w] : v \in Strs, w \in 0..1}
        \cup {[value |-> PyStr("a")], [weight |-> 1]}
PresetLists == UNION {[1..n -> PresetEntries] : n \in 0..MaxPreset}

FullDistConfigs ==
    {[type |-> t, step |-> s] : t \in {"mono_inc", "mono_dec"}, s \in 1..MaxStep}
    \cup {[type |-> t, upper_bound |-> u, lower_bound |-> l] :
            t \in {"random", "random_int", "uniform", "noise"}, u \in Ints, l \in Ints}
    \cup {[type |-> "random_string", length |-> n] : n \in Ints}
    \cup {[type |-> "normal", mean |-> m, stddev |-> s] : m \in Ints, s \in 0..1}
    \cup {[type |-> "periodic", period |-> p, amplitude |-> a, bias |-> b] :
            p \in 1..MaxInt, a \in 1..MaxInt, b \in 0..1}
    \cup {[type |-> "constant_string", value |-> v] : v \in Strs}
    \cup {[type |-> "constant_int", value |-> PyInt(v)] : v \in Ints}
    \cup {[type |-> "constant_float", value |-> PyFloat(v)] : v \in Ints}
    \cup {[type |-> "weighted_preset", preset |-> p] : p \in PresetLists}
    \cup {[type |-> t, step |-> 1, value |-> PyInt(1)] : t \in {"bogus", "MonoInc", ""}}

DistConfigs ==
    FullDistConfigs \cup {Drop(c, k) : c \in FullDistConfigs, k \in {"type", "step",
        "upper_bound", "lower_bound", "length", "mean", "stddev", "period",
        "amplitude", "bias", "value", "preset"}}

(***************************************************************************)
(* The runs of the model.  A scenario is what load_yaml returns (start and *)
(* end already parsed to integers) together with the two values that       *)
(* generate_prom_data hard-codes, BATCH_SIZE and time_slice: the model      *)
(* takes them as parameters of the run, so that a run with few samples     *)
(* crosses batch and slice boundaries.                                     *)
(***************************************************************************)
MaxStart == 1       \* start ranges over 0..MaxStart
MaxSpan == 6        \* end - start ranges over 0..MaxSpan
MaxInterval == 3    \* interval ranges over 1..MaxInterval
MaxPrecision == 2   \* precision ranges over 1..MaxPrecision
MaxBatch == 4       \* BATCH_SIZE ranges over 1..MaxBatch
MaxSlice == 3       \* time_slice ranges over 1..MaxSlice
MaxColumns == 2     \* the tag lists and field lists hold at most this many columns

ColumnConfig(name, type, dist) ==
    [name |-> name, type |-> type, nullability |-> 0, dist |-> dist]
PresetOf(vals) ==
    [type |-> "weighted_preset",
     preset |-> [i \in 1..Len(vals) |-> [value |-> PyStr(vals[i]), weight |-> 1]]]

HostA == ColumnConfig("host", "STRING", [type |-> "constant_string", value |-> PyStr("a")])
DcAB == ColumnConfig("dc", "STRING", PresetOf(<<"a", "b">>))
CpuInc == ColumnConfig("cpu", "FLOAT", [type |-> "mono_inc", step |-> 1])

TagColumnConfigs ==
    {HostA, DcAB,
     ColumnConfig("host", "STRING", PresetOf(<<"a", "b", "c">>)),
     ColumnConfig("dc", "STRING", PresetOf(<<"a", "a">>)),
     ColumnConfig("dc", "FLOAT", [type |-> "mono_inc", step |-> 1]),
     ColumnConfig("host", "STRING", [type |-> "constant", value |-> PyStr("a")]),
     ColumnConfig("dc", "STRING", [type |-> "constant_string"]),
     ColumnConfig("n", "INTEGER", [type |-> "random_int", upper_bound |-> 2, lower_bound |-> 0]),
     ColumnConfig("__name__", "STRING", [type |-> "constant_string", value |-> PyStr("up")])}

FieldColumnConfigs ==
    {CpuInc,
     ColumnConfig("cpu", "FLOAT", [type |-> "mono_dec", step |-> 2]),
     ColumnConfig("mem", "FLOAT", [type |-> "periodic", period |-> 1, amplitude |-> 1, bias |-> 0]),
     ColumnConfig("mem", "FLOAT", [type |-> "constant_float", value |-> PyFloat(1)]),
     ColumnConfig("io", "INTEGER", [type |-> "random_int", upper_bound |-> 1, lower_bound |-> 0]),
     ColumnConfig("io", "INTEGER", [type |-> "random_int", upper_bound |-> 0, lower_bound |-> 1]),
     ColumnConfig("cpu", "FLOAT", [type |-> "gauss", mean |-> 0, stddev |-> 1]),
     ColumnConfig("mem", "FLOAT", [type |-> "normal", mean |-> 0]),
     ColumnConfig("cpu", "STRING", [type |-> "constant_string", value |-> PyStr("a")])}

ColumnLists(cols) == UNION {[1..n -> cols] : n \in 0..MaxColumns}

Scenario(start, end, interval, precision, tags_, fields_, batch, slice) ==
    [start |-> start, end |-> end, interval |-> interval, precision |-> precision,
     tags |-> tags_, fields |-> fields_, BATCH_SIZE |-> batch, time_slice |-> slice]

\* every time parameter over its range, one or two series of one field
TimeScenarios ==
    {Scenario(st, st + span, iv, pr, tg, <<CpuInc>>, b, sl) :
        st \in 0..MaxStart, span \in 0..MaxSpan, iv \in 1..MaxInterval,
        pr \in 1..MaxPrecision, tg \in {<<HostA>>, <<DcAB>>},
        b \in 1..MaxBatch, sl \in 1..MaxSlice}

\* every list of tag columns, and every list of field columns, over a
\* short time range
ColumnScenarios ==
    {Scenario(0, end, 1, 1, tg, <<CpuInc>>, 3, 2) :
        end \in 1..3, tg \in ColumnLists(TagColumnConfigs)}
    \cup {Scenario(0, end, 1, 1, <<HostA>>, fd, 3, 2) :
        end \in 1..3, fd \in ColumnLists(FieldColumnConfigs)}

\* the samples one series gets in one slice, and the slices of a run
SamplesPerSlice(slice, interval) == Cardinality(range_step(0, slice, interval))
SlicesOf(start, end, slice) == Cardinality(range_step(start, end, slice))

\* BATCH_SIZE = 10 and 25 samples in all, from one series or from five
BatchScenarios ==
    {sc \in {Scenario(0, end, iv, 1, tg, <<CpuInc>>, 10, sl) :
                end \in 1..25, iv \in 1..MaxInterval, sl \in 1..25,
                tg \in {<<HostA>>,
                        <<ColumnConfig("host", "STRING",
                                       PresetOf(<<"a", "b", "c", "d", "e">>))>>}} :
        (IF sc.tags = <<HostA>> THEN 1 ELSE 5)
            * SlicesOf(0, sc.end, sc.time_slice)
            * SamplesPerSlice(sc.time_slice, sc.interval) = 25}

Scenarios == TimeScenarios \cup ColumnScenarios \cup BatchScenarios

(***************************************************************************)
(* counter.py: one Counter shared by the processes 1..MaxProcs.  c_value   *)
(* is self._value.value, c_lock the process that holds self._lock (0 when  *)
(* it is free); c_pc, c_n, c_tmp are the position of each process in incr, *)
(* the n of its call and the value it read; c_added is the sum of the n of *)
(* the calls that have written; c_returned holds what incr returned to     *)
(* each process, every value with the c_added of that moment; c_seen is    *)
(* the last result of value() with the number of calls that had returned   *)
(* and the c_added of that moment.                                         *)
(***************************************************************************)
VARIABLES c_init, c_value, c_lock, c_pc, c_n, c_tmp, c_added, c_returned, c_seen

cvars == <<c_init, c_value, c_lock, c_pc, c_n, c_tmp, c_added, c_returned, c_seen>>

\* The state of WireSpec: a batch of (labels, samples) pairs, the entries
\* build_timeseries made of them, the message build_remote_write_message
\* made of the entries, and the message read back
VARIABLES w_pc, w_batch, w_entries, w_message, w_decoded

wvars == <<w_pc, w_batch, w_entries, w_message, w_decoded>>

\* The state of PartitionSpec: the series list, the parallelism and the
\* shards made so far
VARIABLES p_pc, p_series, p_parallel, p_shards

pvars == <<p_pc, p_series, p_parallel, p_shards>>

\* the state of the other specifications, which a run leaves alone
auxvars == <<cvars, wvars, pvars>>

\* the state of DistSpec
VARIABLES d_pc, d_config, d_dist, d_all, d_gen, d_emitted

dvars == <<d_pc, d_config, d_dist, d_all, d_gen, d_emitted>>

None == [none |-> TRUE]

RECURSIVE Sum(_)
\* the sum of a sequence of numbers
Sum(seq) == IF seq = <<>> THEN 0 ELSE Head(seq) + Sum(Tail(seq))

MaxProcs == 2       \* the processes that share the Counter
MaxCalls == 2       \* each of them calls incr at most this often
Procs == 1..MaxProcs

\* no Counter exists
CounterIdle ==
    /\ c_init = 0 /\ c_value = 0 /\ c_lock = 0
    /\ c_pc = [p \in Procs |-> "none"]
    /\ c_n = [p \in Procs |-> 0]
    /\ c_tmp = [p \in Procs |-> 0]
    /\ c_added = 0
    /\ c_returned = [p \in Procs |-> <<>>]
    /\ c_seen = None

WireIdle ==
    /\ w_pc = "none" /\ w_batch = <<>> /\ w_entries = <<>>
    /\ w_message = None /\ w_decoded = None

PartitionIdle ==
    /\ p_pc = "none" /\ p_series = <<>> /\ p_parallel = 0 /\ p_shards = <<>>

AuxIdle == CounterIdle /\ WireIdle /\ PartitionIdle

VARIABLES config, BATCH_SIZE, time_slice, pc, exc, tags, fields, tag_count,
          tags_permutation, series_generator, accum_size, file_index,
          total_counter, time_series, writer, files, slice_start, si, fi, ts,
          labels, samples, produced, flushes

\* config .. samples are the values of main and of generate_prom_data: si
\* and fi are the positions of the loops over series_generator and over
\* series[1].items(), ts the next value of the innermost range; writer is
\* the position in files of the open file (0 before the first open).
\* produced and flushes are history: every sample in the order the
\* innermost loop made it, and the number of samples of every message
\* written.
rvars == <<config, BATCH_SIZE, time_slice, pc, exc, tags, fields, tag_count,
           tags_permutation, series_generator, accum_size, file_index,
           total_counter, time_series, writer, files, slice_start, si, fi, ts,
           labels, samples, produced, flushes>>

vars == <<rvars, dvars, auxvars>>

\* args.promout
prom_out == "out"

\* the locals of generate_prom_data before the function runs
Unassigned ==
    /\ exc = "none"
    /\ tags = <<>> /\ fields = <<>>
    /\ tag_count = 0
    /\ tags_permutation = <<>>
    /\ series_generator = <<>>
    /\ accum_size = 0 /\ file_index = 0 /\ total_counter = 0
    /\ time_series = <<>>
    /\ writer = 0 /\ files = <<>>
    /\ slice_start = 0 /\ si = 0 /\ fi = 0 /\ ts = 0
    /\ labels = <<>> /\ samples = <<>>
    /\ produced = <<>> /\ flushes = <<>>

DistIdle ==
    /\ d_pc = "idle" /\ d_config = None /\ d_dist = None
    /\ d_all = None /\ d_gen = None /\ d_emitted = <<>>

Init ==
    /\ \E sc \in Scenarios :
          /\ config = [start |-> sc.start, end |-> sc.end, interval |-> sc.interval,
                       precision |-> sc.precision, tags |-> sc.tags,
                       fields |-> sc.fields]
          /\ BATCH_SIZE = sc.BATCH_SIZE
          /\ time_slice = sc.time_slice
    /\ pc = "main"
    /\ Unassigned
    /\ DistIdle
    /\ AuxIdle

\* an exception as it would be if it were caught and the statement tried again
Raised_and_retried(e) ==
    /\ pc' = pc
    /\ exc' = e

\* No handler catches an exception: it ends main, and exc keeps it
Raised(e) ==
    /\ pc' = "error"
    /\ exc' = e

\* main: tags = parse_col_defs(config["tags"]); fields = parse_col_defs(config["fields"])
ParseColDefs ==
    /\ pc = "main"
    /\ LET t == parse_col_defs(config.tags)
           f == parse_col_defs(config.fields)
       IN IF IsRaise(t)
          THEN Raised(t.raised) /\ UNCHANGED <<tags, fields>>
          ELSE IF IsRaise(f)
          THEN Raised(f.raised) /\ tags' = t.ok /\ UNCHANGED fields
          ELSE /\ tags' = t.ok
               /\ fields' = f.ok
               /\ pc' = "generate"
               /\ UNCHANGED exc
    /\ UNCHANGED <<config, BATCH_SIZE, time_slice, tag_count, tags_permutation,
                   series_generator, accum_size, file_index, total_counter,
                   time_series, writer, files, slice_start, si, fi, ts, labels,
                   samples, produced, flushes, dvars, auxvars>>

\* [[series, dict([[field.name, field.dist.generator()] for field in fields])]
\*  for series in tags_permutation]
series_generator_of(permutation, fields_) ==
    [j \in 1..Len(permutation) |->
        [series |-> permutation[j],
         gens |-> DictOf([i \in 1..Len(fields_) |->
                            <<fields_[i].name, generator(fields_[i].dist)>>])]]

\* generate_prom_data up to the list of generators: the counters, the
\* label-sets and one generator per label-set and field
Prepare ==
    /\ pc = "generate"
    /\ accum_size' = 0
    /\ file_index' = 0
    /\ total_counter' = 0
    /\ time_series' = <<>>
    /\ LET r == tag_set_permutation(tags)
       IN IF IsRaise(r)
          THEN Raised(r.raised)
               /\ UNCHANGED <<tag_count, tags_permutation, series_generator>>
          ELSE /\ tag_count' = r.ok.count
               /\ tags_permutation' = r.ok.permutation
               /\ series_generator' = series_generator_of(r.ok.permutation, fields)
               /\ pc' = "open"
               /\ UNCHANGED exc
    /\ UNCHANGED <<config, BATCH_SIZE, time_slice, tags, fields, writer, files,
                   slice_start, si, fi, ts, labels, samples, produced, flushes,
                   dvars, auxvars>>

\* open(path, 'wb'): a new, empty, open file
open(fs, path) == Append(fs, [path |-> path, data |-> <<>>, closed |-> FALSE])
\* writer.write(message); writer.close()
write_close(fs, w, message) ==
    [fs EXCEPT ![w] = [@ EXCEPT !.data = Append(@, message), !.closed = TRUE]]

\* What the file system does to an open() or to a write() and close(): it
\* succeeds, or it raises OSError
io_results == {"ok", "OSError"}

\* writer = open(prom_file(prom_out, file_index), 'wb'), then on to the
\* first slice
OpenWriter ==
    /\ pc = "open"
    /\ \E opened \in io_results :
          IF opened = "OSError"
          THEN Raised("OSError")
               /\ UNCHANGED <<files, writer, slice_start, si, fi>>
          ELSE /\ files' = open(files, prom_file(prom_out, file_index))
               /\ writer' = Len(files')
               /\ slice_start' = config.start
               /\ si' = 1
               /\ fi' = 1
               /\ pc' = "loop"
               /\ UNCHANGED exc
    /\ UNCHANGED <<config, BATCH_SIZE, time_slice, tags, fields, tag_count,
                   tags_permutation, series_generator, accum_size, file_index,
                   total_counter, time_series, ts, labels, samples, produced,
                   flushes, dvars, auxvars>>

RECURSIVE NextIteration(_, _, _)
\* The three nested for loops: from (slice, s, f), the next slice start,
\* series and field for which the body runs, or done when
\* range(start, end, time_slice) is exhausted
NextIteration(slice, s, f) ==
    IF slice >= config.end THEN [done |-> TRUE]
    ELSE IF s > Len(series_generator) THEN NextIteration(slice + time_slice, 1, 1)
    ELSE IF f > Len(series_generator[s].gens) THEN NextIteration(slice, s + 1, 1)
    ELSE [done |-> FALSE, slice_start |-> slice, si |-> s, fi |-> f]

\* the labels as they would be if the metric name were set once per series
labels_named_once(labels_, series, f, field) ==
    IF f = 1 THEN DictSet(DictOf(series), "__name__", PyStr(field)) ELSE labels_

\* The one labels dict of a series: at the first field of the series it is
\* made anew (labels = {}; labels[name] = value for the items of
\* series[0]), at a later field it is the dict that the field before left;
\* then labels['__name__'] = field
labels_of(labels_, series, f, field) ==
    DictSet(IF f = 1 THEN DictOf(series) ELSE labels_, "__name__", PyStr(field))

\* for slice_start ..: for series ..: for (field, field_gen) ..: the loop
\* headers up to `samples = []`
LoopHead ==
    /\ pc = "loop"
    /\ LET it == NextIteration(slice_start, si, fi)
       IN IF it.done
          THEN /\ pc' = "final"
               /\ UNCHANGED <<slice_start, si, fi, ts, labels, samples>>
          ELSE /\ slice_start' = it.slice_start
               /\ si' = it.si
               /\ fi' = it.fi
               /\ labels' = labels_of(labels, series_generator[it.si].series, it.fi,
                                      series_generator[it.si].gens[it.fi][1])
               /\ samples' = <<>>
               /\ ts' = it.slice_start
               /\ pc' = "samples"
    /\ UNCHANGED <<config, BATCH_SIZE, time_slice, exc, tags, fields, tag_count,
                   tags_permutation, series_generator, accum_size, file_index,
                   total_counter, time_series, writer, files, produced, flushes,
                   dvars, auxvars>>

\* series[1].items() as it would be if generator() were called at each use
items_fresh_generators(series) ==
    [i \in 1..Len(series.gens) |->
        <<series.gens[i][1], generator(series.gens[i][2].dist)>>]

\* series[1].items(): the (field, field_gen) pairs of a series
items(series) == series.gens

\* next(field_gen) as it would be if the series shared the generators of
\* the fields: the generator of field f moves on for every series
advance_shared(generators, s, f, gen) ==
    [j \in 1..Len(generators) |->
        [generators[j] EXCEPT !.gens[f] = <<generators[s].gens[f][1], gen>>]]

\* next(field_gen): the generator object of series s and field f moves on,
\* and no other
advance(generators, s, f, gen) ==
    [generators EXCEPT ![s].gens[f] = <<generators[s].gens[f][1], gen>>]

\* One pass of `for ts in range(slice_start, slice_start+time_slice, interval)`
Sample ==
    /\ pc = "samples"
    /\ ts < slice_start + time_slice
    /\ LET field == items(series_generator[si])[fi][1]
           field_gen == items(series_generator[si])[fi][2]
           timestamp == ts * config.precision
       IN IF next_raises(field_gen)
          THEN Raised("ValueError")
               /\ UNCHANGED <<series_generator, samples, accum_size, ts, produced>>
          ELSE /\ \E o \in next(field_gen) :
                     /\ series_generator' = advance(series_generator, si, fi, o.gen)
                     /\ samples' = Append(samples, <<timestamp, o.value>>)
                     /\ produced' = Append(produced,
                           [series |-> si, field |-> field, labels |-> labels,
                            timestamp |-> timestamp, value |-> o.value])
               /\ accum_size' = accum_size + 1
               /\ ts' = ts + config.interval
               /\ UNCHANGED <<pc, exc>>
    /\ UNCHANGED <<config, BATCH_SIZE, time_slice, tags, fields, tag_count,
                   tags_permutation, file_index, total_counter, time_series,
                   writer, files, slice_start, si, fi, labels, flushes, dvars, auxvars>>

\* time_series.append(build_timeseries(labels, samples))
AppendSeries ==
    /\ pc = "samples"
    /\ ts >= slice_start + time_slice
    /\ LET built == build_timeseries(labels, samples)
           dist == series_generator[si].gens[fi][2].dist
       IN IF IsRaise(built) \/ (samples # <<>> /\ ~yields_number(dist))
          THEN Raised("TypeError") /\ UNCHANGED time_series
          ELSE /\ time_series' = Append(time_series, built.ok)
               /\ pc' = "check"
               /\ UNCHANGED exc
    /\ UNCHANGED <<config, BATCH_SIZE, time_slice, tags, fields, tag_count,
                   tags_permutation, series_generator, accum_size, file_index,
                   total_counter, writer, files, slice_start, si, fi, ts, labels,
                   samples, produced, flushes, dvars, auxvars>>

RECURSIVE SamplesIn(_)
\* the number of samples the entries of a batch hold
SamplesIn(batch) ==
    IF batch = <<>> THEN 0
    ELSE Len(batch[Len(batch)].samples) + SamplesIn(SubSeq(batch, 1, Len(batch) - 1))

\* the flush condition as it would be with > for >=
flush_due_strict(accum, batch_size) == accum > batch_size

\* if accum_size >= BATCH_SIZE
flush_due(accum, batch_size) == accum >= batch_size

\* The body of the if: write the batch, close the file, open the next one,
\* reset the counters; then on to the next field.  A write that raises
\* leaves the statements after it undone, and so does an open that raises
Flush ==
    /\ pc = "check"
    /\ flush_due(accum_size, BATCH_SIZE)
    /\ \E written \in io_results, opened \in io_results :
          IF written = "OSError"
          THEN /\ opened = "ok"
               /\ Raised("OSError")
               /\ UNCHANGED <<file_index, files, writer, total_counter,
                              accum_size, time_series, flushes, fi>>
          ELSE IF opened = "OSError"
          THEN /\ Raised("OSError")
               /\ files' = write_close(files, writer,
                                       build_remote_write_message(time_series))
               /\ flushes' = Append(flushes, SamplesIn(time_series))
               /\ file_index' = file_index + 1
               /\ UNCHANGED <<writer, total_counter, accum_size, time_series, fi>>
          ELSE /\ file_index' = file_index + 1
               /\ files' = open(write_close(files, writer,
                                            build_remote_write_message(time_series)),
                                prom_file(prom_out, file_index'))
               /\ writer' = Len(files')
               /\ total_counter' = total_counter + accum_size
               /\ accum_size' = 0
               /\ time_series' = <<>>
               /\ flushes' = Append(flushes, SamplesIn(time_series))
               /\ fi' = fi + 1
               /\ pc' = "loop"
               /\ UNCHANGED exc
    /\ UNCHANGED <<config, BATCH_SIZE, time_slice, tags, fields, tag_count,
                   tags_permutation, series_generator, slice_start, si, ts,
                   labels, samples, produced, dvars, auxvars>>

\* The if is not taken: on to the next field
NoFlush ==
    /\ pc = "check"
    /\ ~flush_due(accum_size, BATCH_SIZE)
    /\ fi' = fi + 1
    /\ pc' = "loop"
    /\ UNCHANGED <<config, BATCH_SIZE, time_slice, exc, tags, fields, tag_count,
                   tags_permutation, series_generator, accum_size, file_index,
                   total_counter, time_series, writer, files, slice_start, si,
                   ts, labels, samples, produced, flushes, dvars, auxvars>>

\* The end of the run as it would be if the file were closed without the
\* last write
FinalFlush_close_only ==
    /\ pc = "final"
    /\ files' = [files EXCEPT ![writer].closed = TRUE]
    /\ pc' = "report"
    /\ UNCHANGED <<config, BATCH_SIZE, time_slice, exc, tags, fields, tag_count,
                   tags_permutation, series_generator, accum_size, file_index,
                   total_counter, time_series, writer, slice_start, si, fi, ts,
                   labels, samples, produced, flushes, dvars, auxvars>>

\* After the loops: write what is left and close the file
FinalFlush ==
    /\ pc = "final"
    /\ \E written \in io_results :
          IF written = "OSError"
          THEN Raised("OSError") /\ UNCHANGED <<files, flushes>>
          ELSE /\ files' = write_close(files, writer,
                                       build_remote_write_message(time_series))
               /\ flushes' = Append(flushes, SamplesIn(time_series))
               /\ pc' = "report"
               /\ UNCHANGED exc
    /\ UNCHANGED <<config, BATCH_SIZE, time_slice, tags, fields, tag_count,
                   tags_permutation, series_generator, accum_size, file_index,
                   total_counter, time_series, writer, slice_start, si, fi, ts,
                   labels, samples, produced, dvars, auxvars>>

\* The report as it would be without adding what the last write carried
Report_flushed_only ==
    /\ pc = "report"
    /\ pc' = "done"
    /\ UNCHANGED <<config, BATCH_SIZE, time_slice, exc, tags, fields, tag_count,
                   tags_permutation, series_generator, accum_size, file_index,
                   total_counter, time_series, writer, files, slice_start, si,
                   fi, ts, labels, samples, produced, flushes, dvars, auxvars>>

\* total_counter += accum_size; print(...)
Report ==
    /\ pc = "report"
    /\ total_counter' = total_counter + accum_size
    /\ pc' = "done"
    /\ UNCHANGED <<config, BATCH_SIZE, time_slice, exc, tags, fields, tag_count,
                   tags_permutation, series_generator, accum_size, file_index,
                   time_series, writer, files, slice_start, si, fi, ts, labels,
                   samples, produced, flushes, dvars, auxvars>>

Next ==
    \/ ParseColDefs
    \/ Prepare
    \/ OpenWriter
    \/ LoopHead
    \/ Sample
    \/ AppendSeries
    \/ Flush
    \/ NoFlush
    \/ FinalFlush
    \/ Report

Spec == Init /\ [][Next]_vars

(***************************************************************************)
(* DistSpec: one distribution at a time, from its configuration to its     *)
(* enumeration and to the values its generator yields.                     *)
(***************************************************************************)
\* generate_prom_data is not running
RunIdle ==
    /\ config = None /\ BATCH_SIZE = 0 /\ time_slice = 0
    /\ pc = "idle"
    /\ Unassigned

DistInit ==
    /\ RunIdle
    /\ AuxIdle
    /\ d_pc = "config"
    /\ d_config \in DistConfigs
    /\ d_dist = None
    /\ d_all = None
    /\ d_gen = None
    /\ d_emitted = <<>>

\* dist = Distribution.from_config(config)
D_from_config ==
    /\ d_pc = "config"
    /\ d_dist' = Distribution_from_config(d_config)
    /\ d_pc' = IF IsRaise(d_dist') THEN "error" ELSE "dist"
    /\ UNCHANGED <<d_config, d_all, d_gen, d_emitted, rvars, auxvars>>

\* dist.all()
D_all ==
    /\ d_pc = "dist"
    /\ d_all = None
    /\ d_all' = all(d_dist.ok)
    /\ UNCHANGED <<d_pc, d_config, d_dist, d_gen, d_emitted, rvars, auxvars>>

\* gen = dist.generator()
D_generator ==
    /\ d_pc = "dist"
    /\ d_gen' = generator(d_dist.ok)
    /\ d_pc' = "gen"
    /\ UNCHANGED <<d_config, d_dist, d_all, d_emitted, rvars, auxvars>>

\* next(gen), the yielded value kept in d_emitted
D_next ==
    /\ d_pc = "gen"
    /\ Len(d_emitted) < MaxAdvance
    /\ IF next_raises(d_gen)
       THEN /\ d_pc' = "error"
            /\ UNCHANGED <<d_gen, d_emitted>>
       ELSE /\ \E o \in next(d_gen) :
                  /\ d_gen' = o.gen
                  /\ d_emitted' = Append(d_emitted, o.value)
            /\ UNCHANGED d_pc
    /\ UNCHANGED <<d_config, d_dist, d_all, rvars, auxvars>>

DistNext == D_from_config \/ D_all \/ D_generator \/ D_next

DistSpec == DistInit /\ [][DistNext]_vars

(***************************************************************************)
(* CounterSpec: the processes call incr(1) on one Counter, in any          *)
(* interleaving of the statements of incr, and value() is called in        *)
(* between.                                                                *)
(***************************************************************************)
\* multiprocessing.Value('i', init): a C int
INT_MAX == 2147483647

\* the C int that an assignment of v + n (n >= 0) leaves: ctypes truncates
\* to 32 bits without an error
c_int_add(v, n) ==
    IF v > INT_MAX - n THEN (v - INT_MAX - 1) + (n - INT_MAX - 1) ELSE v + n

\* Counter(init) for the initial values of the model
CounterInits == {0, 1, INT_MAX - 1}

\* the n of incr(n) in the model
MaxIncr == 2

CounterInit ==
    /\ RunIdle
    /\ DistIdle
    /\ WireIdle
    /\ PartitionIdle
    /\ c_init \in CounterInits
    /\ c_value = c_init
    /\ c_lock = 0
    /\ c_pc = [p \in Procs |-> "idle"]
    /\ c_n = [p \in Procs |-> 0]
    /\ c_tmp = [p \in Procs |-> 0]
    /\ c_added = 0
    /\ c_returned = [p \in Procs |-> <<>>]
    /\ c_seen = None

\* `with self._lock:` as it would be without the lock
acquire_nothing(lock) == TRUE

\* `with self._lock:` is entered when the lock is free
acquire(lock) == lock = 0

\* incr(n): with self._lock
C_incr_enter(p) ==
    /\ c_pc[p] = "idle"
    /\ Len(c_returned[p]) < MaxCalls
    /\ acquire(c_lock)
    /\ c_lock' = p
    /\ \E n \in 1..MaxIncr : c_n' = [c_n EXCEPT ![p] = n]
    /\ c_pc' = [c_pc EXCEPT ![p] = "read"]
    /\ UNCHANGED <<c_init, c_value, c_tmp, c_added, c_returned, c_seen,
                   rvars, dvars, wvars, pvars>>

\* incr: self._value.value += n, the read
C_incr_read(p) ==
    /\ c_pc[p] = "read"
    /\ c_tmp' = [c_tmp EXCEPT ![p] = c_value]
    /\ c_pc' = [c_pc EXCEPT ![p] = "write"]
    /\ UNCHANGED <<c_init, c_value, c_lock, c_n, c_added, c_returned, c_seen,
                   rvars, dvars, wvars, pvars>>

\* incr: self._value.value += n, the write
C_incr_write(p) ==
    /\ c_pc[p] = "write"
    /\ c_value' = c_int_add(c_tmp[p], c_n[p])
    /\ c_added' = c_added + c_n[p]
    /\ c_pc' = [c_pc EXCEPT ![p] = "return"]
    /\ UNCHANGED <<c_init, c_lock, c_n, c_tmp, c_returned, c_seen,
                   rvars, dvars, wvars, pvars>>

\* incr: return self._value.value, leaving the with block
C_incr_return(p) ==
    /\ c_pc[p] = "return"
    /\ c_returned' = [c_returned EXCEPT
                         ![p] = Append(@, [value |-> c_value, added |-> c_added])]
    /\ c_lock' = IF c_lock = p THEN 0 ELSE c_lock
    /\ c_pc' = [c_pc EXCEPT ![p] = "idle"]
    /\ UNCHANGED <<c_init, c_value, c_n, c_tmp, c_added, c_seen,
                   rvars, dvars, wvars, pvars>>

\* the incr calls that have returned
ReturnedCalls == Sum([p \in Procs |-> Len(c_returned[p])])

\* value(): with self._lock: return self._value.value
C_value ==
    /\ acquire(c_lock)
    /\ c_seen' = [value |-> c_value, calls |-> ReturnedCalls, added |-> c_added]
    /\ UNCHANGED <<c_init, c_value, c_lock, c_pc, c_n, c_tmp, c_added, c_returned,
                   rvars, dvars, wvars, pvars>>

CounterNext ==
    \/ \E p \in Procs :
          C_incr_enter(p) \/ C_incr_read(p) \/ C_incr_write(p) \/ C_incr_return(p)
    \/ C_value

CounterSpec == CounterInit /\ [][CounterNext]_vars

(***************************************************************************)
(* WireSpec: a batch of series is encoded with build_timeseries and        *)
(* build_remote_write_message, and the message is read back.               *)
(***************************************************************************)
MaxSamples == 2     \* a series of a batch holds at most this many samples

\* the (timestamp, value) tuples of the model
SampleTuples == {<<t, v>> : t \in 0..1, v \in {PyFloat(0), PyFloat(1), PyInt(2)}}
SampleLists == UNION {[1..n -> SampleTuples] : n \in 0..MaxSamples}

\* the labels dicts of the model, the last with a value that is not a str
LabelDicts ==
    {<<>>,
     <<<<"__name__", PyStr("cpu")>>>>,
     <<<<"host", PyStr("a")>>, <<"__name__", PyStr("cpu")>>>>,
     <<<<"__name__", PyStr("mem")>>, <<"host", PyStr("")>>>>,
     <<<<"host", PyStr("b")>>, <<"dc", PyStr("a")>>, <<"__name__", PyStr("")>>>>,
     <<<<"host", PyInt(1)>>, <<"__name__", PyStr("cpu")>>>>}

WireSeries == {[labels |-> l, samples |-> x] : l \in LabelDicts, x \in SampleLists}

\* a series to go with another in a batch of two
CpuOfHostA ==
    [labels |-> <<<<"host", PyStr("a")>>, <<"__name__", PyStr("cpu")>>>>,
     samples |-> <<<<0, PyFloat(0)>>, <<1, PyInt(2)>>>>]

WireBatches ==
    {<<>>} \cup {<<x>> : x \in WireSeries}
           \cup {<<x, CpuOfHostA>> : x \in WireSeries}
           \cup {<<CpuOfHostA, x>> : x \in WireSeries}

WireInit ==
    /\ RunIdle
    /\ DistIdle
    /\ CounterIdle
    /\ PartitionIdle
    /\ w_pc = "build"
    /\ w_batch \in WireBatches
    /\ w_entries = <<>>
    /\ w_message = None
    /\ w_decoded = None

\* time_series.append(build_timeseries(labels, samples)) for the next
\* series of the batch
W_build_timeseries ==
    /\ w_pc = "build"
    /\ Len(w_entries) < Len(w_batch)
    /\ LET next_series == w_batch[Len(w_entries) + 1]
           built == build_timeseries(next_series.labels, next_series.samples)
       IN IF IsRaise(built)
          THEN w_pc' = "error" /\ UNCHANGED w_entries
          ELSE w_entries' = Append(w_entries, built.ok) /\ UNCHANGED w_pc
    /\ UNCHANGED <<w_batch, w_message, w_decoded, rvars, dvars, cvars, pvars>>

\* write_request = build_remote_write_message(time_series)
W_build_remote_write_message ==
    /\ w_pc = "build"
    /\ Len(w_entries) = Len(w_batch)
    /\ w_message' = build_remote_write_message(w_entries)
    /\ w_pc' = "message"
    /\ UNCHANGED <<w_batch, w_entries, w_decoded, rvars, dvars, cvars, pvars>>

\* the message is decompressed and decoded
W_decode ==
    /\ w_pc = "message"
    /\ w_decoded' = decode(w_message)
    /\ w_pc' = "decoded"
    /\ UNCHANGED <<w_batch, w_entries, w_message, rvars, dvars, cvars, pvars>>

WireNext == W_build_timeseries \/ W_build_remote_write_message \/ W_decode

WireSpec == WireInit /\ [][WireNext]_vars

(***************************************************************************)
(* PartitionSpec: the Parallel Work Partitioner, from its description: the *)
(* series list is split into P contiguous shards whose sizes differ by at  *)
(* most one, the longer shards first.                                      *)
(***************************************************************************)
MaxSeries == 8      \* the series list holds at most this many series
MaxParallel == 4    \* the parallelism ranges over 1..MaxParallel

\* the size of shard k as it would be with chunks of ceil(N / P) series
shard_size_by_chunk(n, parallel, k) ==
    LET chunk == (n + parallel - 1) \div parallel
        left == n - (k - 1) * chunk
    IN IF left <= 0 THEN 0 ELSE IF left < chunk THEN left ELSE chunk

\* the size of shard k of P (k = 1..P) for a list of n series
shard_size(n, parallel, k) ==
    (n \div parallel) + (IF k <= n % parallel THEN 1 ELSE 0)

RECURSIVE shard_start(_, _, _)
\* the series before shard k: those of the shards 1..k-1
shard_start(n, parallel, k) ==
    IF k = 1 THEN 0
    ELSE shard_start(n, parallel, k - 1) + shard_size(n, parallel, k - 1)

\* shard k: the next shard_size series of the list
shard(series, parallel, k) ==
    LET first == shard_start(Len(series), parallel, k)
    IN SubSeq(series, first + 1, first + shard_size(Len(series), parallel, k))

PartitionInit ==
    /\ RunIdle
    /\ DistIdle
    /\ CounterIdle
    /\ WireIdle
    /\ p_pc = "split"
    /\ \E n \in 0..MaxSeries : p_series = [i \in 1..n |-> i]
    /\ p_parallel \in 1..MaxParallel
    /\ p_shards = <<>>

\* the next shard is cut off the list
P_shard ==
    /\ p_pc = "split"
    /\ Len(p_shards) < p_parallel
    /\ p_shards' = Append(p_shards, shard(p_series, p_parallel, Len(p_shards) + 1))
    /\ UNCHANGED <<p_pc, p_series, p_parallel, rvars, dvars, cvars, wvars>>

\* all P shards are made
P_done ==
    /\ p_pc = "split"
    /\ Len(p_shards) = p_parallel
    /\ p_pc' = "done"
    /\ UNCHANGED <<p_series, p_parallel, p_shards, rvars, dvars, cvars, wvars>>

PartitionNext == P_shard \/ P_done

PartitionSpec == PartitionInit /\ [][PartitionNext]_vars

(***************************************************************************)
(* Properties of the distribution catalog, checked under DistSpec.         *)
(***************************************************************************)
\* The parameters Distribution.from_config reads for each type tag
RequiredKeys(dist_type) ==
    IF dist_type \in {"mono_inc", "mono_dec"} THEN {"step"}
    ELSE IF dist_type \in {"random", "random_int", "uniform", "noise"}
    THEN {"upper_bound", "lower_bound"}
    ELSE IF dist_type = "random_string" THEN {"length"}
    ELSE IF dist_type = "normal" THEN {"mean", "stddev"}
    ELSE IF dist_type = "periodic" THEN {"period", "amplitude", "bias"}
    ELSE IF dist_type = "weighted_preset" THEN {"preset"}
    ELSE {"value"}

VariantOf(dist_type) ==
    CASE dist_type = "mono_inc" -> "MonoInc"
      [] dist_type = "mono_dec" -> "MonoDec"
      [] dist_type = "random" -> "Random"
      [] dist_type = "random_int" -> "RandomInt"
      [] dist_type = "random_string" -> "RandomString"
      [] dist_type = "normal" -> "Normal"
      [] dist_type = "uniform" -> "Uniform"
      [] dist_type = "noise" -> "Noise"
      [] dist_type = "periodic" -> "Periodic"
      [] dist_type = "constant_string" -> "ConstantString"
      [] dist_type = "constant_int" -> "ConstantInt"
      [] dist_type = "constant_float" -> "ConstantFloat"
      [] dist_type = "weighted_preset" -> "WeightedPreset"

RecognizedTypes ==
    {"mono_inc", "mono_dec", "random", "random_int", "random_string", "normal",
     "uniform", "noise", "periodic", "constant_string", "constant_int",
     "constant_float", "weighted_preset"}

EnumerableVariants ==
    {"RandomInt", "ConstantString", "ConstantInt", "ConstantFloat", "WeightedPreset"}

ParametersPresent(cfg) ==
    /\ Has(cfg, "type")
    /\ cfg["type"] \in RecognizedTypes
    /\ RequiredKeys(cfg["type"]) \subseteq DOMAIN cfg
    /\ cfg["type"] = "weighted_preset" =>
          \A i \in 1..Len(cfg["preset"]) :
              {"value", "weight"} \subseteq DOMAIN cfg["preset"][i]

\* C7 (as claimed): for UniformRandomInt(lower, upper) with lower <= upper,
\* all() lists exactly the integers lower..upper, upper included.
C7_AllIsInclusiveRange ==
    (/\ d_pc = "dist"
     /\ d_all # None
     /\ d_dist.ok.cls = "RandomInt"
     /\ d_dist.ok.lower_bound <= d_dist.ok.upper_bound)
    => /\ ~IsRaise(d_all)
       /\ {d_all.ok[i] : i \in 1..Len(d_all.ok)}
            = {PyInt(v) : v \in d_dist.ok.lower_bound..d_dist.ok.upper_bound}

\* C8: the k-th advance of a MonotonicIncrement(step) generator yields
\* (k-1)*step and the k-th advance of a MonotonicDecrement(step) generator
\* yields -(k-1)*step.
C8_MonotonicValues ==
    (d_pc = "gen" /\ d_dist.ok.cls \in {"MonoInc", "MonoDec"})
    => \A k \in 1..Len(d_emitted) :
          d_emitted[k] = IF d_dist.ok.cls = "MonoInc"
                         THEN PyInt((k - 1) * d_dist.ok.step)
                         ELSE PyInt(0 - (k - 1) * d_dist.ok.step)

\* MonotonicIncrement(step=5) has yielded 0, 5, 10
C8_Witness ==
    /\ d_pc = "gen"
    /\ d_dist.ok = MonoInc(5)
    /\ d_emitted = <<PyInt(0), PyInt(5), PyInt(10)>>

\* C10: from_config returns the variant of a recognized type tag exactly
\* when the tag's required parameters are present and raises otherwise;
\* all() returns a list exactly on the enumerable variants and raises on
\* every other variant.
C10_ConstructionAndEnumerability ==
    /\ d_dist # None =>
          /\ IsRaise(d_dist) <=> ~ParametersPresent(d_config)
          /\ ~IsRaise(d_dist) => d_dist.ok.cls = VariantOf(d_config["type"])
    /\ d_all # None =>
          (IsRaise(d_all) <=> d_dist.ok.cls \notin EnumerableVariants)

\* all() has raised on a Periodic distribution built from its three parameters
C10_Witness ==
    /\ d_pc = "dist"
    /\ d_all = Raise("ValueError")
    /\ d_dist.ok.cls = "Periodic"

\* C22 (as claimed): every value that the generator of an enumerable
\* distribution has yielded is in the list that all() returned for it.
C22_EmittedValuesEnumerated ==
    (d_pc = "gen" /\ d_all # None /\ ~IsRaise(d_all)) =>
       \A k \in 1..Len(d_emitted) :
          \E i \in 1..Len(d_all.ok) : d_emitted[k] = d_all.ok[i]

(***************************************************************************)
(* Properties of a run of generate_prom_data, checked under Spec.          *)
(***************************************************************************)
\* n: the samples one series gets in one slice
PerSlice == SamplesPerSlice(time_slice, config.interval)
\* the smallest multiple of n that is at least BATCH_SIZE
FlushSize == PerSlice * ((BATCH_SIZE + PerSlice - 1) \div PerSlice)

\* C1 (as claimed): with BATCH_SIZE = 10 a run of 25 samples ends with
\* exactly three flushes, of 10, 10 and 5 samples, whatever the slice width
\* and the interval.
C1_TenTenFive ==
    (pc = "done" /\ BATCH_SIZE = 10 /\ Len(produced) = 25)
    => flushes = <<10, 10, 5>>

\* C1 (amended): the flush condition is evaluated once per series and slice,
\* after n = SamplesPerSlice samples were added, and is accum_size >=
\* BATCH_SIZE: every flush but the last carries the smallest multiple of n
\* that is at least BATCH_SIZE, and the one flush at the end of the run
\* carries the rest (possibly no sample).  With BATCH_SIZE = 10 and 25
\* samples that is 10, 10, 5 when n is 1 or 5, and 25, 0 when n is 25.
C1_FlushSizes ==
    pc = "done" =>
       /\ Len(flushes) = (Len(produced) \div FlushSize) + 1
       /\ \A i \in 1..(Len(flushes) - 1) : flushes[i] = FlushSize
       /\ flushes[Len(flushes)] = Len(produced) % FlushSize
       /\ (BATCH_SIZE = 10 /\ Len(produced) = 25) =>
             flushes = IF PerSlice \in {1, 5} THEN <<10, 10, 5>> ELSE <<25, 0>>

\* 25 samples were flushed as 10, 10, 5
C1_Witness ==
    /\ pc = "done"
    /\ BATCH_SIZE = 10
    /\ Len(produced) = 25
    /\ flushes = <<10, 10, 5>>

\* C2 (as claimed): the batch buffer never holds more than BATCH_SIZE samples.
C2_BufferAtMostBatch ==
    pc # "main" =>
       /\ accum_size <= BATCH_SIZE
       /\ SamplesIn(time_series) <= BATCH_SIZE

\* C2 (amended): the batch buffer never holds more than BATCH_SIZE - 1 + n
\* samples, n the samples one series gets in one slice, and holds fewer than
\* BATCH_SIZE whenever a series' slice is started.
C2_BufferBound ==
    pc # "main" =>
       /\ accum_size <= BATCH_SIZE - 1 + PerSlice
       /\ SamplesIn(time_series) <= BATCH_SIZE - 1 + PerSlice
       /\ pc = "loop" => accum_size < BATCH_SIZE /\ SamplesIn(time_series) < BATCH_SIZE

\* the flush condition is evaluated with more than BATCH_SIZE samples in the buffer
C2_Witness ==
    /\ pc = "check"
    /\ SamplesIn(time_series) > BATCH_SIZE
    /\ SamplesIn(time_series) = BATCH_SIZE - 1 + PerSlice

RECURSIVE Concat(_)
Concat(seqs) == IF seqs = <<>> THEN <<>> ELSE seqs[1] \o Concat(Tail(seqs))

\* The samples read back from the output files, in file, entry and sample order
EntrySamples(entry) ==
    [i \in 1..Len(entry.samples) |->
        [labels |-> entry.labels,
         timestamp |-> entry.samples[i].timestamp,
         value |-> entry.samples[i].value]]
MessageSamples(message) ==
    LET entries == decode(message).timeseries
    IN Concat([i \in 1..Len(entries) |-> EntrySamples(entries[i])])
FileSamples(file) == Concat([i \in 1..Len(file.data) |-> MessageSamples(file.data[i])])
WrittenSamples == Concat([i \in 1..Len(files) |-> FileSamples(files[i])])

\* The samples the innermost loop made, in the order it made them, a value
\* compared as a number (0 == 0.0)
ProducedSamples ==
    [i \in 1..Len(produced) |->
        [labels |-> [k \in 1..Len(produced[i].labels) |->
                        [name |-> produced[i].labels[k][1],
                         value |-> produced[i].labels[k][2]]],
         timestamp |-> produced[i].timestamp,
         value |-> double(produced[i].value)]]

\* C3: when generate_prom_data finishes, the samples of the output files
\* are the samples the time-slice loop produced, each of them once and in
\* one file, and nothing else.
C3_NoSampleLostOrDuplicated ==
    pc = "done" => WrittenSamples = ProducedSamples

\* a finished run whose samples went to three files
C3_Witness ==
    /\ pc = "done"
    /\ Len(files) = 3
    /\ \A i \in 1..3 : FileSamples(files[i]) # <<>>

\* the samples of one series, in the order they were made
SeriesSamples(s, f) ==
    LET mine(e) == e.series = s /\ e.field = f IN SelectSeq(produced, mine)

SeriesKeys == {<<produced[i].series, produced[i].field>> : i \in 1..Len(produced)}

\* C4 (as claimed): the timestamps of every series increase strictly, and
\* two consecutive timestamps of a series differ by interval * precision,
\* whatever the relation between interval and the slice width.
C4_FixedStride ==
    \A key \in SeriesKeys :
       LET mine == SeriesSamples(key[1], key[2])
       IN \A i \in 1..(Len(mine) - 1) :
             mine[i + 1].timestamp - mine[i].timestamp
                = config.interval * config.precision

\* the classes whose generator yields one determined value at each advance
Deterministic(dist) ==
    dist.cls \in {"MonoInc", "MonoDec", "Periodic", "ConstantString",
                  "ConstantInt", "ConstantFloat"}

RECURSIVE Advance(_, _)
\* the values of k advances of a generator, without interruption
Advance(gen, k) ==
    IF k = 0 THEN <<>>
    ELSE LET o == CHOOSE o \in next(gen) : TRUE
         IN <<o.value>> \o Advance(o.gen, k - 1)

\* C5: the values a series has received so far are those of one fresh
\* generator of its distribution advanced as many times without
\* interruption, across slice boundaries and batch flushes; a
\* MonotonicIncrement series gets 0, step, 2*step, ...
C5_GeneratorContinuity ==
    \A key \in SeriesKeys :
       LET mine == SeriesSamples(key[1], key[2])
           dist == DictGet(series_generator[key[1]].gens, key[2]).dist
       IN Deterministic(dist) =>
             /\ [i \in 1..Len(mine) |-> mine[i].value]
                   = Advance(generator(dist), Len(mine))
             /\ dist.cls = "MonoInc" =>
                   \A i \in 1..Len(mine) : mine[i].value = PyInt((i - 1) * dist.step)

\* a series has samples of three slices, with a batch flush in between
C5_Witness ==
    /\ pc = "done"
    /\ Len(flushes) >= 3
    /\ \E key \in SeriesKeys :
          /\ Len(SeriesSamples(key[1], key[2])) >= 3 * PerSlice
          /\ PerSlice >= 2

\* tag_set_permutation has returned
Prepared == pc \in {"open", "loop", "samples", "check", "final", "report", "done"}

RECURSIVE SizesProduct(_)
\* the product of the sizes of the tag columns' enumerations
SizesProduct(columns) ==
    IF columns = <<>> THEN 1
    ELSE Len(all(columns[1].dist).ok) * SizesProduct(Tail(columns))

PairwiseDistinct(seq) == \A i, j \in 1..Len(seq) : i # j => seq[i] # seq[j]

\* every label-set maps the tag names, in order, to values of their columns
LabelSetsWellFormed ==
    \A j \in 1..Len(tags_permutation) :
       /\ Len(tags_permutation[j]) = Len(tags)
       /\ \A i \in 1..Len(tags) :
             /\ tags_permutation[j][i][1] = tags[i].name
             /\ \E k \in 1..Len(all(tags[i].dist).ok) :
                   tags_permutation[j][i][2] = all(tags[i].dist).ok[k]

\* C6 (as claimed): tag_set_permutation returns pairwise distinct
\* label-sets, as many as the product of the sizes of the tag columns'
\* enumerations, which is the count it reports, and each label-set maps
\* every tag name to a value of that column's enumeration.
C6_DistinctProduct ==
    Prepared =>
       /\ Len(tags_permutation) = SizesProduct(tags)
       /\ tag_count = SizesProduct(tags)
       /\ PairwiseDistinct(tags_permutation)
       /\ LabelSetsWellFormed

\* C6 (amended): for tag columns of pairwise distinct names,
\* tag_set_permutation returns as many label-sets as the product of the
\* sizes of the columns' enumerations, which is the count it reports, and
\* each label-set maps every tag name to a value of that column's
\* enumeration; the label-sets are pairwise distinct when no column's
\* enumeration lists a value twice.
C6_ProductOfEnumerations ==
    (Prepared /\ PairwiseDistinct([i \in 1..Len(tags) |-> tags[i].name])) =>
       /\ Len(tags_permutation) = SizesProduct(tags)
       /\ tag_count = SizesProduct(tags)
       /\ LabelSetsWellFormed
       /\ (\A i \in 1..Len(tags) : PairwiseDistinct(all(tags[i].dist).ok))
             => PairwiseDistinct(tags_permutation)

\* a tag of 2 values and a tag of 3 values gave 6 label-sets
C6_Witness ==
    /\ Prepared
    /\ Len(tags) = 2
    /\ Len(all(tags[1].dist).ok) = 2
    /\ Len(all(tags[2].dist).ok) = 3
    /\ Len(tags_permutation) = 6
    /\ tag_count = 6
    /\ PairwiseDistinct(tags_permutation)

\* what the claim calls a configuration error: a column whose distribution
\* has an unknown type tag or lacks a required parameter, or a tag column
\* whose distribution is not enumerable
ConfigurationError ==
    \/ \E i \in 1..Len(config.tags) : ~ParametersPresent(config.tags[i].dist)
    \/ \E i \in 1..Len(config.fields) : ~ParametersPresent(config.fields[i].dist)
    \/ \E i \in 1..Len(config.tags) :
          /\ ParametersPresent(config.tags[i].dist)
          /\ VariantOf(config.tags[i].dist["type"]) \notin EnumerableVariants

\* C9: a run whose configuration has such an error never opens an output
\* file and never advances a generator: it ends with the error raised
\* before generation starts.
C9_ConfigErrorBeforeGeneration ==
    ConfigurationError =>
       /\ files = <<>>
       /\ writer = 0
       /\ produced = <<>>
       /\ \A j \in 1..Len(series_generator) :
             \A i \in 1..Len(series_generator[j].gens) :
                ~series_generator[j].gens[i][2].started
       /\ pc \in {"main", "generate", "error"}

\* the columns were parsed and the enumeration of a tag column has raised
C9_Witness ==
    /\ pc = "error"
    /\ exc = "ValueError"
    /\ ConfigurationError
    /\ tags # <<>>
    /\ fields # <<>>

\* C11: the files are named <prefix>-<index>.bin with the indices 0, 1, 2,
\* ... in the order they were opened, no name is opened twice, at most one
\* file is open at a time, and when the run completes every file that was
\* opened holds exactly one message and is closed.
C11_FileNaming ==
    /\ \A i \in 1..Len(files) : files[i].path = <<prom_out, "-", i - 1, ".bin">>
    /\ PairwiseDistinct([i \in 1..Len(files) |-> files[i].path])
    /\ Cardinality({i \in 1..Len(files) : ~files[i].closed}) <= 1
    /\ \A i \in 1..Len(files) : Len(files[i].data) <= 1
    /\ pc = "done" =>
          \A i \in 1..Len(files) : files[i].closed /\ Len(files[i].data) = 1

\* a finished run that opened the files 0, 1 and 2
C11_Witness ==
    /\ pc = "done"
    /\ Len(files) = 3
    /\ files[3].path = <<prom_out, "-", 2, ".bin">>
    /\ \A i \in 1..3 : files[i].closed /\ Len(files[i].data) = 1

\* C12: the total that a completed run reports is the number of samples in
\* the output files, the sum of the sample counts of all the messages
\* written, the last one included.
C12_ReportedTotal ==
    pc = "done" =>
       /\ total_counter = Len(WrittenSamples)
       /\ total_counter = Sum(flushes)

\* a finished run with several threshold flushes and samples in the last message
C12_Witness ==
    /\ pc = "done"
    /\ Len(flushes) >= 3
    /\ flushes[Len(flushes)] > 0
    /\ total_counter = Sum(flushes)

\* C13 (as claimed): no output file ever holds a message with zero series.
C13_NoEmptyMessage ==
    \A i \in 1..Len(files) :
       \A m \in 1..Len(files[i].data) :
          decode(files[i].data[m]).timeseries # <<>>

\* C15: an OSError from opening or writing an output file ends the run:
\* no step follows it, so nothing is retried and no further file is opened,
\* and a file that was written and closed is never changed again.
C15_IOErrorIsFatal ==
    [][/\ exc # "OSError"
       /\ \A i \in 1..Len(files) :
             files[i].closed => (i <= Len(files') /\ files'[i] = files[i])]_vars

\* the open of the third file has raised, after two files were written
C15_Witness ==
    /\ pc = "error"
    /\ exc = "OSError"
    /\ Len(files) = 2
    /\ file_index = 2
    /\ \A i \in 1..2 : files[i].closed /\ Len(files[i].data) = 1

\* the number of times a generator was advanced, for the classes whose
\* state tells it
Counting(dist) == dist.cls \in {"MonoInc", "MonoDec", "Periodic"}
Advances(gen) ==
    IF ~gen.started THEN 0
    ELSE IF gen.dist.cls = "MonoInc" THEN (gen.current \div gen.dist.step) + 1
    ELSE IF gen.dist.cls = "MonoDec" THEN ((0 - gen.current) \div gen.dist.step) + 1
    ELSE gen.current

\* the names of the field columns, each once, in the order a dict keeps them
FieldNames == [i \in 1..Len(DictOf([k \in 1..Len(fields) |-> <<fields[k].name, 0>>])) |->
                  DictOf([k \in 1..Len(fields) |-> <<fields[k].name, 0>>])[i][1]]

\* every label-set has one generator for every field, which has been
\* advanced once for every sample of its series
OneGeneratorPerSeries ==
    /\ Prepared =>
          /\ Len(series_generator) = Len(tags_permutation)
          /\ \A j \in 1..Len(series_generator) :
                /\ series_generator[j].series = tags_permutation[j]
                /\ [i \in 1..Len(series_generator[j].gens) |->
                       series_generator[j].gens[i][1]] = FieldNames
    /\ pc = "open" =>
          \A j \in 1..Len(series_generator) :
             \A i \in 1..Len(series_generator[j].gens) :
                ~series_generator[j].gens[i][2].started
    /\ \A j \in 1..Len(series_generator) :
          \A i \in 1..Len(series_generator[j].gens) :
             LET field == series_generator[j].gens[i][1]
                 gen == series_generator[j].gens[i][2]
             IN /\ gen.started <=> SeriesSamples(j, field) # <<>>
                /\ Counting(gen.dist) => Advances(gen) = Len(SeriesSamples(j, field))

\* a step keeps every generator object, and changes the state of one only
\* by producing a sample of its own series
OwnGeneratorOnly ==
    \A j \in 1..Len(series_generator) :
       /\ Len(series_generator') = Len(series_generator)
       /\ series_generator'[j].series = series_generator[j].series
       /\ Len(series_generator'[j].gens) = Len(series_generator[j].gens)
       /\ \A i \in 1..Len(series_generator[j].gens) :
             LET old == series_generator[j].gens[i]
                 new == series_generator'[j].gens[i]
             IN /\ new[1] = old[1]
                /\ new[2].dist = old[2].dist
                /\ old[2].started => new[2].started
                /\ new # old =>
                      /\ Len(produced') = Len(produced) + 1
                      /\ produced'[Len(produced')].series = j
                      /\ produced'[Len(produced')].field = old[1]

\* C18: one generator exists per label-set and field, made before the
\* first slice and never made again; a generator is advanced only by a
\* sample of its own series, every other generator keeps its state, and it
\* has been advanced as often as its series has samples.
C18_GeneratorOwnership == []OneGeneratorPerSeries /\ [][OwnGeneratorOnly]_vars

\* the first of two series has its samples of two slices, the generator of
\* the second is still where the first slice left it
C18_Witness ==
    /\ pc = "samples"
    /\ Len(series_generator) = 2
    /\ PerSlice = 2
    /\ series_generator[1].gens[1][2].dist.cls = "MonoInc"
    /\ Advances(series_generator[1].gens[1][2]) = 4
    /\ Len(SeriesSamples(1, series_generator[1].gens[1][1])) = 4
    /\ Advances(series_generator[2].gens[1][2]) = 2
    /\ Len(flushes) >= 1

\* the values that the labels of an entry give to a name
LabelValues(entry, name) ==
    {entry.labels[i].value : i \in {k \in 1..Len(entry.labels) : entry.labels[k].name = name}}
LabelCount(entry, name) ==
    Cardinality({k \in 1..Len(entry.labels) : entry.labels[k].name = name})

\* an entry carries the tags of a label-set whose name is not '__name__',
\* each once with its value, one '__name__' label, and nothing else
CarriesLabelSet(entry, series) ==
    /\ \A i \in 1..Len(series) :
          series[i][1] # "__name__" =>
             /\ LabelCount(entry, series[i][1]) = 1
             /\ LabelValues(entry, series[i][1]) = {series[i][2]}
    /\ LabelCount(entry, "__name__") = 1
    /\ \A k \in 1..Len(entry.labels) :
          \/ entry.labels[k].name = "__name__"
          \/ \E i \in 1..Len(series) : series[i][1] = entry.labels[k].name

\* the entries of the batch and of the files
BatchedEntries == {time_series[i] : i \in 1..Len(time_series)}
WrittenEntries ==
    UNION {UNION {{decode(files[i].data[m]).timeseries[e] :
                      e \in 1..Len(decode(files[i].data[m]).timeseries)} :
                  m \in 1..Len(files[i].data)} : i \in 1..Len(files)}

\* C19: the entry appended for a label-set and a field carries the tags of
\* the label-set (those not named '__name__') with their values and one
\* '__name__' label with the name of that field, for every field of the
\* label-set; and so does every entry of the batch and of the files, for
\* some label-set and some field.
C19_EntryLabels ==
    /\ pc = "check" =>
          LET entry == time_series[Len(time_series)]
          IN /\ CarriesLabelSet(entry, series_generator[si].series)
             /\ LabelValues(entry, "__name__")
                   = {PyStr(series_generator[si].gens[fi][1])}
             /\ entry.samples
                   = [i \in 1..Len(samples) |->
                        [value |-> double(samples[i][2]), timestamp |-> samples[i][1]]]
    /\ \A entry \in BatchedEntries \cup WrittenEntries :
          /\ \E j \in 1..Len(tags_permutation) :
                CarriesLabelSet(entry, tags_permutation[j])
          /\ \E i \in 1..Len(FieldNames) :
                LabelValues(entry, "__name__") = {PyStr(FieldNames[i])}

\* the entry of the second field of a label-set was appended after that of
\* the first, each with its own metric name
C19_Witness ==
    /\ pc = "check"
    /\ fi = 2
    /\ Len(time_series) >= 2
    /\ LabelValues(time_series[Len(time_series)], "__name__") = {PyStr("mem")}
    /\ LabelValues(time_series[Len(time_series) - 1], "__name__") = {PyStr("cpu")}
    /\ LabelValues(time_series[Len(time_series)], "host") = {PyStr("a")}

\* C20 (as claimed): every sample has a tick time t with start <= t < end
\* and the timestamp t * precision, also when end - start is not a multiple
\* of the slice width, and no series has two samples of one tick time.
C20_WithinRange ==
    /\ \A i \in 1..Len(produced) :
          LET t == produced[i].timestamp \div config.precision
          IN /\ produced[i].timestamp = t * config.precision
             /\ config.start <= t
             /\ t < config.end
    /\ \A key \in SeriesKeys :
          LET mine == SeriesSamples(key[1], key[2])
          IN \A i, j \in 1..Len(mine) :
                i # j => mine[i].timestamp # mine[j].timestamp

\* a step is a completed flush: the body of the if has run to its end
FlushStep == pc = "check" /\ pc' = "loop" /\ Len(flushes') = Len(flushes) + 1

\* C21: whenever the flush condition is evaluated, accum_size is the number
\* of samples that the entries of time_series hold, and right after a flush
\* accum_size is 0 and time_series is empty.
C21_CounterMatchesBuffer ==
    /\ [](pc = "check" => accum_size = SamplesIn(time_series))
    /\ [][FlushStep => (accum_size' = 0 /\ time_series' = <<>>)]_vars

\* the flush condition is evaluated on a buffer of two entries, after an
\* earlier flush
C21_Witness ==
    /\ pc = "check"
    /\ Len(flushes) >= 1
    /\ Len(time_series) = 2
    /\ accum_size = SamplesIn(time_series)
    /\ accum_size >= 2

(***************************************************************************)
(* Properties of the Counter, checked under CounterSpec.                   *)
(***************************************************************************)
Returns == {<<p, k>> \in Procs \X (1..(MaxCalls + 1)) : k <= Len(c_returned[p])}

\* no two incr calls returned the same value
DistinctReturns ==
    \A a, b \in Returns :
       a # b => c_returned[a[1]][a[2]].value # c_returned[b[1]][b[2]].value

\* C14 (as claimed): the values returned by incr are pairwise distinct, and
\* when every call was incr(1), value() is the initial value plus the number
\* of calls that have returned, whatever the initial value.
C14_InitPlusCalls ==
    /\ DistinctReturns
    /\ (c_seen # None /\ c_seen.added = c_seen.calls) =>
          /\ c_seen.calls <= INT_MAX - c_init
          /\ c_seen.value = c_init + c_seen.calls

\* The lock makes incr atomic: the values returned are pairwise distinct and
\* value() is the C int that the initial value and the calls add up to, the
\* sum itself as long as that is at most INT_MAX.
AtomicIncrement ==
    /\ DistinctReturns
    /\ c_seen # None =>
          c_seen.value = IF c_seen.added <= INT_MAX - c_init
                         THEN c_init + c_seen.added
                         ELSE (c_init - INT_MAX - 1) + (c_seen.added - INT_MAX - 1)

\* both processes have made all their calls, one after the other's first,
\* and value() has seen the sum
AtomicIncrementReached ==
    /\ c_init = 0
    /\ \A p \in Procs : Len(c_returned[p]) = MaxCalls
    /\ c_returned[1][1].value = 2
    /\ c_seen = [value |-> MaxProcs * MaxCalls, calls |-> MaxProcs * MaxCalls,
                 added |-> MaxProcs * MaxCalls]

\* C23 (as claimed): from a non-negative initial value and with n > 0, every
\* value that incr returns and that value() returns is the initial value
\* plus the n of all the calls so far, also beyond INT_MAX, and a process
\* never gets a smaller value than it got before.
C23_TrueSum ==
    /\ \A a \in Returns :
          LET r == c_returned[a[1]][a[2]]
          IN /\ r.added <= INT_MAX - c_init
             /\ r.value = c_init + r.added
    /\ c_seen # None =>
          /\ c_seen.added <= INT_MAX - c_init
          /\ c_seen.value = c_init + c_seen.added
    /\ \A q \in Procs :
          \A k \in 1..(Len(c_returned[q]) - 1) :
             c_returned[q][k].value < c_returned[q][k + 1].value

(***************************************************************************)
(* Properties of the wire message, checked under WireSpec.                 *)
(***************************************************************************)
\* the items of a decoded entry's labels and the tuples of its samples
DecodedLabels(entry) ==
    [i \in 1..Len(entry.labels) |-> <<entry.labels[i].name, entry.labels[i].value>>]
DecodedSamples(entry) ==
    [i \in 1..Len(entry.samples) |->
        <<entry.samples[i].timestamp, entry.samples[i].value>>]

\* C16: the message read back holds the series of the batch in order, each
\* with the items of its labels in order, key for key and value for value,
\* and with its samples in order, timestamp for timestamp and value for
\* value (a value compared as a number: 2 == 2.0).
C16_RoundTrip ==
    w_pc = "decoded" =>
       /\ Len(w_decoded.timeseries) = Len(w_batch)
       /\ \A i \in 1..Len(w_batch) :
             /\ DecodedLabels(w_decoded.timeseries[i]) = w_batch[i].labels
             /\ DecodedSamples(w_decoded.timeseries[i])
                   = [k \in 1..Len(w_batch[i].samples) |->
                        <<w_batch[i].samples[k][1], double(w_batch[i].samples[k][2])>>]

\* a batch of two series was read back, the first with an empty label
\* value and a sample whose timestamp and value are 0
C16_Witness ==
    /\ w_pc = "decoded"
    /\ Len(w_batch) = 2
    /\ w_batch[1].labels = <<<<"__name__", PyStr("mem")>>, <<"host", PyStr("")>>>>
    /\ w_batch[1].samples = <<<<0, PyFloat(0)>>, <<1, PyInt(2)>>>>
    /\ Len(w_decoded.timeseries) = 2

(***************************************************************************)
(* Properties of the partitioner, checked under PartitionSpec.             *)
(***************************************************************************)
\* C17: the P shards are contiguous pieces of the series list, in order;
\* their sizes sum to N, each size is floor(N/P) or ceil(N/P), and every
\* series is in exactly one shard.
C17_Shards ==
    p_pc = "done" =>
       LET n == Len(p_series)
           floor == n \div p_parallel
           ceil == (n + p_parallel - 1) \div p_parallel
       IN /\ Len(p_shards) = p_parallel
          /\ Sum([k \in 1..Len(p_shards) |-> Len(p_shards[k])]) = n
          /\ \A k \in 1..Len(p_shards) : Len(p_shards[k]) \in {floor, ceil}
          /\ Concat(p_shards) = p_series
          /\ \A x \in 1..n :
                Cardinality({<<k, i>> \in (1..Len(p_shards)) \X (1..n) :
                                i <= Len(p_shards[k]) /\ p_shards[k][i] = x}) = 1

\* 7 series were split into 3 shards of 3, 2 and 2
C17_Witness ==
    /\ p_pc = "done"
    /\ Len(p_series) = 7
    /\ p_parallel = 3
    /\ p_shards = <<<<1, 2, 3>>, <<4, 5>>, <<6, 7>>>>

====
